---- MODULE Spec2Model ----
(* Model of src/download_data.py: StockInfoDownloader.begin_download running  *)
(* download_stock on a ThreadPoolExecutor, with the semaphore that guards the *)
(* yfinance call and the final to_sql replace of the table.                   *)
EXTENDS Integers, Sequences, FiniteSets, TLC

\* ---------------------------------------------------------------- bounds
MaxSyms == 3
FirstYear == 2023
NumYears == 2

\* ------------------------------------------------------- program constants
K == 1
W == 10
YearsBack == 11

\* ------------------------------------------------------------------ inputs
\* Ticker strings are sequences of characters, so that the '.' -> '-'
\* rewrite is computed character by character.
Tickers == { <<"A", "A">>, <<"B", ".", "B">> }

SeqsUpTo(S, n) == UNION { [1..k -> S] : k \in 0..n }

\* A timestamp of the provider's index is <<day, time of day>>.
Responses ==
  { [raises |-> TRUE,  index |-> << >>],
    [raises |-> FALSE, index |-> << <<1, 1>> >>],
    [raises |-> FALSE, index |-> << <<1, 0>>, <<2, 1>> >>],
    [raises |-> FALSE, index |-> << <<2, 0>>, <<1, 1>> >>] }

\* A provider call that never returns.
Hang == [raises |-> FALSE, index |-> << >>, hangs |-> TRUE]

Hangs(r) == "hangs" \in DOMAIN r

OldTable == << [Date |-> <<0>>, Name |-> <<"O">>] >>

VARIABLES
  wiki,        \* the 'Symbol' column read_html will return
  provider,    \* what yf.download answers for each symbol
  sink_fails,  \* whether to_sql will raise
  main_pc,     \* position of begin_download
  exc,         \* the exception that left begin_download, or "none"
  stock_list,  \* line 60
  task_pc,     \* position of each submitted download_stock call
  stock_df,    \* the local stock_df of each download_stock call
  semaphore,   \* value of self.semaphore
  fetched,     \* the symbols yf.download has been called with
  df_list,     \* line 64
  main_df,     \* self.main_df
  table,       \* contents of table s_and_p
  replace_calls, \* number of to_sql calls made
  replace_rows,  \* the dataset handed to the last to_sql call
  printed,     \* 'Download completed' has been printed
  init_pc,     \* position of __init__
  current_time, \* self.current_time, as <<year, month, day>>
  start_time   \* self.start_time, as <<year, month, day>>

clock == << init_pc, current_time, start_time >>

vars == << clock, wiki, provider, sink_fails, main_pc, exc, stock_list, task_pc,
           stock_df, semaphore, fetched, df_list, main_df, table,
           replace_calls, replace_rows, printed >>

\* ------------------------------------------------------------ pure helpers
\* str.replace('.', '-', regex=False): every literal '.' becomes '-'.
\* (variant: the column is used as read, without the rewrite)
ReplaceNone(s) == s

RECURSIVE Replace(_)
Replace(s) ==
  IF s = << >> THEN << >>
  ELSE << IF Head(s) = "." THEN "-" ELSE Head(s) >> \o Replace(Tail(s))

\* Series.str.replace(...).to_list(): the rewrite applied to every element.
ReplaceAll(col) == [i \in 1..Len(col) |-> Replace(col[i])]

\* (variant: acquire never blocks)
CanAcquire_NoBlock(v) == TRUE

\* Semaphore.acquire() proceeds only while the value is positive.
CanAcquire(v) == v > 0

\* The frame yf.download returns: one row per index entry, Date as index.
RawFrame(r) == [i \in 1..Len(r.index) |-> [Date |-> r.index[i]]]

\* stock_df['Name'] = stock
Tag(df, stock) == [i \in 1..Len(df) |-> [Date |-> df[i].Date, Name |-> stock]]

\* pd.to_datetime(stock_df['Date']).dt.date: the time of day is dropped.
ToDate(ts) == << ts[1] >>

\* (variant: the rows come out latest first)
Truncate_Reversed(df) ==
  [i \in 1..Len(df) |-> [Date |-> ToDate(df[Len(df) + 1 - i].Date), Name |-> df[Len(df) + 1 - i].Name]]

Truncate(df) == [i \in 1..Len(df) |-> [Date |-> ToDate(df[i].Date), Name |-> df[i].Name]]

\* pd.concat(df_list, ignore_index=True): the frames one after the other.
RECURSIVE Concat(_)
Concat(l) == IF l = << >> THEN << >> ELSE Head(l) \o Concat(Tail(l))

\* The calendar of datetime: a date <<y, m, d>> exists when d is a day of
\* month m of year y.
IsLeap(y) == y % 4 = 0 /\ (y % 100 # 0 \/ y % 400 = 0)

DaysInMonth(y, m) ==
  IF m = 2 THEN (IF IsLeap(y) THEN 29 ELSE 28)
  ELSE IF m \in {4, 6, 9, 11} THEN 30 ELSE 31

ValidDate(y, m, d) == y >= 1 /\ m \in 1..12 /\ d \in 1..DaysInMonth(y, m)

\* The days datetime.now() can fall on.
Dates ==
  { t \in (FirstYear..(FirstYear + NumYears - 1)) \X (1..12) \X (1..31) :
       ValidDate(t[1], t[2], t[3]) }

\* Line 22: the arguments of datetime(year - 11, month, day).
StartArgs(now) == << now[1] - YearsBack, now[2], now[3] >>

\* The day of the runs of begin_download that are explored.
RunDate == << FirstYear, 3, 1 >>

NoDate == << >>

Tasks == 1..Len(task_pc)

\* Tasks between semaphore.acquire() and semaphore.release().
InFlight == { i \in Tasks : task_pc[i] \in {"call", "release"} }

\* Tasks a worker thread is executing.
Running == { i \in Tasks : task_pc[i] \in {"acquire", "call", "release", "tag", "date"} }

Settled == \A i \in Tasks : task_pc[i] \in {"done", "failed", "cancelled"}

Terminal == main_pc \in {"done", "raised"}

\* ------------------------------------------------------------------- Init
Init ==
  /\ wiki \in SeqsUpTo(Tickers, MaxSyms)
  /\ provider \in [ { Replace(t) : t \in Tickers } -> Responses ]
  /\ sink_fails \in BOOLEAN
  /\ main_pc = "read_html"
  /\ exc = "none"
  /\ stock_list = << >>
  /\ task_pc = << >>
  /\ stock_df = << >>
  /\ semaphore = K
  /\ fetched = {}
  /\ df_list = << >>
  /\ main_df = << >>
  /\ table = OldTable
  /\ replace_calls = 0
  /\ replace_rows = << >>
  /\ printed = FALSE
  /\ init_pc = "ready"
  /\ current_time = RunDate
  /\ start_time = StartArgs(RunDate)

\* ------------------------------------------------------------- __init__
\* The state in which __init__ is entered, on any day of the calendar.
InitDate ==
  /\ wiki = << >>
  /\ provider = [ s \in { Replace(t) : t \in Tickers } |-> [raises |-> FALSE, index |-> << >>] ]
  /\ sink_fails = FALSE
  /\ main_pc = "read_html"
  /\ exc = "none"
  /\ stock_list = << >>
  /\ task_pc = << >>
  /\ stock_df = << >>
  /\ semaphore = K
  /\ fetched = {}
  /\ df_list = << >>
  /\ main_df = << >>
  /\ table = OldTable
  /\ replace_calls = 0
  /\ replace_rows = << >>
  /\ printed = FALSE
  /\ init_pc = "init"
  /\ current_time \in Dates
  /\ start_time = NoDate

\* Lines 21-25: datetime(year - 11, month, day) is a date of the calendar.
Construct ==
  /\ init_pc = "init"
  /\ ValidDate(StartArgs(current_time)[1], StartArgs(current_time)[2], StartArgs(current_time)[3])
  /\ start_time' = StartArgs(current_time)
  /\ init_pc' = "ready"
  /\ UNCHANGED << current_time, wiki, provider, sink_fails, main_pc, exc,
                  stock_list, task_pc, stock_df, semaphore, fetched, df_list,
                  main_df, table, replace_calls, replace_rows, printed >>

\* Line 22: datetime raises ValueError('day is out of range for month');
\* no downloader is constructed.
ConstructRaise ==
  /\ init_pc = "init"
  /\ ~ValidDate(StartArgs(current_time)[1], StartArgs(current_time)[2], StartArgs(current_time)[3])
  /\ init_pc' = "raised"
  /\ UNCHANGED << current_time, start_time, wiki, provider, sink_fails,
                  main_pc, exc, stock_list, task_pc, stock_df, semaphore,
                  fetched, df_list, main_df, table, replace_calls,
                  replace_rows, printed >>

NextInit == Construct \/ ConstructRaise

SpecInit == InitDate /\ [][NextInit]_vars

\* ------------------------------------------------- begin_download, main thread
\* Lines 57-60: the symbol column is read and rewritten.
ReadSymbols ==
  /\ main_pc = "read_html"
  /\ stock_list' = ReplaceAll(wiki)
  /\ main_pc' = "map"
  /\ UNCHANGED << clock, wiki, provider, sink_fails, exc, task_pc, stock_df, semaphore,
                  fetched, df_list, main_df, table, replace_calls,
                  replace_rows, printed >>

\* Line 57: read_html raises; nothing catches it.
ReadSymbolsRaise ==
  /\ main_pc = "read_html"
  /\ main_pc' = "raised"
  /\ exc' = "SymbolSource"
  /\ UNCHANGED << clock, wiki, provider, sink_fails, stock_list, task_pc, stock_df,
                  semaphore, fetched, df_list, main_df, table, replace_calls,
                  replace_rows, printed >>

\* Line 65, executor.map: one future is submitted per symbol, in order.
Submit ==
  /\ main_pc = "map"
  /\ Len(task_pc) < Len(stock_list)
  /\ task_pc' = Append(task_pc, "pending")
  /\ stock_df' = Append(stock_df, << >>)
  /\ UNCHANGED << clock, wiki, provider, sink_fails, main_pc, exc, stock_list,
                  semaphore, fetched, df_list, main_df, table, replace_calls,
                  replace_rows, printed >>

\* Line 65: every symbol is submitted, the for loop starts to iterate.
StartIterate ==
  /\ main_pc = "map"
  /\ Len(task_pc) = Len(stock_list)
  /\ main_pc' = "for"
  /\ UNCHANGED << clock, wiki, provider, sink_fails, exc, stock_list, task_pc,
                  stock_df, semaphore, fetched, df_list, main_df, table,
                  replace_calls, replace_rows, printed >>

\* (variant: the frame is taken without waiting for the future to finish)
Collect_NoWait ==
  /\ main_pc = "for"
  /\ Len(df_list) < Len(task_pc)
  /\ task_pc[Len(df_list) + 1] \in {"date", "done"}
  /\ df_list' = Append(df_list, stock_df[Len(df_list) + 1])
  /\ UNCHANGED << clock, wiki, provider, sink_fails, main_pc, exc, stock_list,
                  task_pc, stock_df, semaphore, fetched, main_df, table,
                  replace_calls, replace_rows, printed >>

\* (variant: each result is put in front of the list)
Collect_Prepend ==
  /\ main_pc = "for"
  /\ Len(df_list) < Len(task_pc)
  /\ task_pc[Len(df_list) + 1] = "done"
  /\ df_list' = << stock_df[Len(df_list) + 1] >> \o df_list
  /\ UNCHANGED << clock, wiki, provider, sink_fails, main_pc, exc, stock_list,
                  task_pc, stock_df, semaphore, fetched, main_df, table,
                  replace_calls, replace_rows, printed >>

\* Lines 65-66: the next result, in submission order, is appended.
Collect ==
  /\ main_pc = "for"
  /\ Len(df_list) < Len(task_pc)
  /\ task_pc[Len(df_list) + 1] = "done"
  /\ df_list' = Append(df_list, stock_df[Len(df_list) + 1])
  /\ UNCHANGED << clock, wiki, provider, sink_fails, main_pc, exc, stock_list,
                  task_pc, stock_df, semaphore, fetched, main_df, table,
                  replace_calls, replace_rows, printed >>

\* Line 65: the next future holds an exception; result() re-raises it in the
\* main thread, map's iterator cancels the futures that have not started, and
\* the with block is left.
CollectRaise ==
  /\ main_pc = "for"
  /\ Len(df_list) < Len(task_pc)
  /\ task_pc[Len(df_list) + 1] = "failed"
  /\ exc' = "Upstream"
  /\ task_pc' = [j \in Tasks |->
                   IF j > Len(df_list) + 1 /\ task_pc[j] = "pending"
                   THEN "cancelled" ELSE task_pc[j]]
  /\ main_pc' = "shutdown"
  /\ UNCHANGED << clock, wiki, provider, sink_fails, stock_list, stock_df, semaphore,
                  fetched, df_list, main_df, table, replace_calls,
                  replace_rows, printed >>

\* Line 65: the iterator is exhausted, the with block is left.
EndIterate ==
  /\ main_pc = "for"
  /\ Len(df_list) = Len(task_pc)
  /\ main_pc' = "shutdown"
  /\ UNCHANGED << clock, wiki, provider, sink_fails, exc, stock_list, task_pc,
                  stock_df, semaphore, fetched, df_list, main_df, table,
                  replace_calls, replace_rows, printed >>

\* Line 63, ThreadPoolExecutor.__exit__: shutdown(wait=True) joins the worker
\* threads; a pending exception then leaves begin_download.
Shutdown ==
  /\ main_pc = "shutdown"
  /\ Settled
  /\ main_pc' = IF exc = "none" THEN "concat" ELSE "raised"
  /\ UNCHANGED << clock, wiki, provider, sink_fails, exc, stock_list, task_pc,
                  stock_df, semaphore, fetched, df_list, main_df, table,
                  replace_calls, replace_rows, printed >>

\* Line 69: pd.concat of the collected frames.
ConcatFrames ==
  /\ main_pc = "concat"
  /\ df_list # << >>
  /\ main_df' = Concat(df_list)
  /\ main_pc' = "to_sql"
  /\ UNCHANGED << clock, wiki, provider, sink_fails, exc, stock_list, task_pc,
                  stock_df, semaphore, fetched, df_list, table, replace_calls,
                  replace_rows, printed >>

\* Line 69: pd.concat([]) raises ValueError('No objects to concatenate').
ConcatRaise ==
  /\ main_pc = "concat"
  /\ df_list = << >>
  /\ exc' = "Concat"
  /\ main_pc' = "raised"
  /\ UNCHANGED << clock, wiki, provider, sink_fails, stock_list, task_pc, stock_df,
                  semaphore, fetched, df_list, main_df, table, replace_calls,
                  replace_rows, printed >>

\* Line 72: to_sql(if_exists='replace') returns; the table holds main_df.
ToSql ==
  /\ main_pc = "to_sql"
  /\ ~sink_fails
  /\ replace_calls' = replace_calls + 1
  /\ replace_rows' = main_df
  /\ table' = main_df
  /\ main_pc' = "report"
  /\ UNCHANGED << clock, wiki, provider, sink_fails, exc, stock_list, task_pc,
                  stock_df, semaphore, fetched, df_list, main_df, printed >>

\* What a failed to_sql may leave in the table: the prior contents, or any
\* part of the new dataset.
AfterFailedWrite == { table } \cup { SubSeq(main_df, 1, k) : k \in 0..Len(main_df) }

\* (variant: the exception of to_sql is caught and the run goes on)
ToSqlRaise_Swallowed ==
  /\ main_pc = "to_sql"
  /\ sink_fails
  /\ replace_calls' = replace_calls + 1
  /\ replace_rows' = main_df
  /\ table' \in AfterFailedWrite
  /\ exc' = "Persistence"
  /\ main_pc' = "report"
  /\ UNCHANGED << clock, wiki, provider, sink_fails, stock_list, task_pc, stock_df,
                  semaphore, fetched, df_list, main_df, printed >>

\* Line 72: to_sql raises; nothing catches it.
ToSqlRaise ==
  /\ main_pc = "to_sql"
  /\ sink_fails
  /\ replace_calls' = replace_calls + 1
  /\ replace_rows' = main_df
  /\ table' \in AfterFailedWrite
  /\ exc' = "Persistence"
  /\ main_pc' = "raised"
  /\ UNCHANGED << clock, wiki, provider, sink_fails, stock_list, task_pc, stock_df,
                  semaphore, fetched, df_list, main_df, printed >>

\* Lines 75-77: the elapsed time is printed.
Report ==
  /\ main_pc = "report"
  /\ printed' = TRUE
  /\ main_pc' = "done"
  /\ UNCHANGED << clock, wiki, provider, sink_fails, exc, stock_list, task_pc,
                  stock_df, semaphore, fetched, df_list, main_df, table,
                  replace_calls, replace_rows >>

\* ------------------------------------------------ download_stock, worker threads
\* A worker thread of the pool takes the work item of future i.
StartTask(i) ==
  /\ task_pc[i] = "pending"
  /\ Cardinality(Running) < W
  /\ task_pc' = [task_pc EXCEPT ![i] = "acquire"]
  /\ UNCHANGED << clock, wiki, provider, sink_fails, main_pc, exc, stock_list,
                  stock_df, semaphore, fetched, df_list, main_df, table,
                  replace_calls, replace_rows, printed >>

\* Lines 35-37: the semaphore is taken and yf.download is called.
Acquire(i) ==
  /\ task_pc[i] = "acquire"
  /\ CanAcquire(semaphore)
  /\ semaphore' = semaphore - 1
  /\ fetched' = fetched \cup { stock_list[i] }
  /\ task_pc' = [task_pc EXCEPT ![i] = "call"]
  /\ UNCHANGED << clock, wiki, provider, sink_fails, main_pc, exc, stock_list,
                  stock_df, df_list, main_df, table, replace_calls,
                  replace_rows, printed >>

\* Line 37: yf.download returns a frame.
CallReturn(i) ==
  /\ task_pc[i] = "call"
  /\ ~Hangs(provider[stock_list[i]])
  /\ ~provider[stock_list[i]].raises
  /\ stock_df' = [stock_df EXCEPT ![i] = RawFrame(provider[stock_list[i]])]
  /\ task_pc' = [task_pc EXCEPT ![i] = "release"]
  /\ UNCHANGED << clock, wiki, provider, sink_fails, main_pc, exc, stock_list,
                  semaphore, fetched, df_list, main_df, table, replace_calls,
                  replace_rows, printed >>

\* Line 37: yf.download raises; the exception leaves download_stock and is
\* stored in the future. Line 38 is not executed.
CallRaise(i) ==
  /\ task_pc[i] = "call"
  /\ ~Hangs(provider[stock_list[i]])
  /\ provider[stock_list[i]].raises
  /\ task_pc' = [task_pc EXCEPT ![i] = "failed"]
  /\ UNCHANGED << clock, wiki, provider, sink_fails, main_pc, exc, stock_list,
                  stock_df, semaphore, fetched, df_list, main_df, table,
                  replace_calls, replace_rows, printed >>

\* (variant: the success path goes on without the release)
Release_Skipped(i) ==
  /\ task_pc[i] = "release"
  /\ task_pc' = [task_pc EXCEPT ![i] = "tag"]
  /\ UNCHANGED << clock, wiki, provider, sink_fails, main_pc, exc, stock_list,
                  stock_df, semaphore, fetched, df_list, main_df, table,
                  replace_calls, replace_rows, printed >>

\* Line 38: semaphore.release().
Release(i) ==
  /\ task_pc[i] = "release"
  /\ semaphore' = semaphore + 1
  /\ task_pc' = [task_pc EXCEPT ![i] = "tag"]
  /\ UNCHANGED << clock, wiki, provider, sink_fails, main_pc, exc, stock_list,
                  stock_df, fetched, df_list, main_df, table, replace_calls,
                  replace_rows, printed >>

\* (variant: the symbol is kept in a field shared by the tasks, which holds
\* the symbol of the last task)
TagName_Shared(i) ==
  /\ task_pc[i] = "tag"
  /\ stock_df' = [stock_df EXCEPT ![i] = Tag(stock_df[i], stock_list[Len(stock_list)])]
  /\ task_pc' = [task_pc EXCEPT ![i] = "date"]
  /\ UNCHANGED << clock, wiki, provider, sink_fails, main_pc, exc, stock_list,
                  semaphore, fetched, df_list, main_df, table, replace_calls,
                  replace_rows, printed >>

\* Line 41: the Name column is set.
TagName(i) ==
  /\ task_pc[i] = "tag"
  /\ stock_df' = [stock_df EXCEPT ![i] = Tag(stock_df[i], stock_list[i])]
  /\ task_pc' = [task_pc EXCEPT ![i] = "date"]
  /\ UNCHANGED << clock, wiki, provider, sink_fails, main_pc, exc, stock_list,
                  semaphore, fetched, df_list, main_df, table, replace_calls,
                  replace_rows, printed >>

\* Lines 44-47: the Date column is converted and the frame returned.
ConvertDate(i) ==
  /\ task_pc[i] = "date"
  /\ stock_df' = [stock_df EXCEPT ![i] = Truncate(stock_df[i])]
  /\ task_pc' = [task_pc EXCEPT ![i] = "done"]
  /\ UNCHANGED << clock, wiki, provider, sink_fails, main_pc, exc, stock_list,
                  semaphore, fetched, df_list, main_df, table, replace_calls,
                  replace_rows, printed >>

download_stock(i) ==
  \/ StartTask(i)
  \/ Acquire(i)
  \/ CallReturn(i)
  \/ CallRaise(i)
  \/ Release(i)
  \/ TagName(i)
  \/ ConvertDate(i)

begin_download ==
  \/ ReadSymbols
  \/ ReadSymbolsRaise
  \/ Submit
  \/ StartIterate
  \/ Collect
  \/ CollectRaise
  \/ EndIterate
  \/ Shutdown
  \/ ConcatFrames
  \/ ConcatRaise
  \/ ToSql
  \/ ToSqlRaise
  \/ Report

Next ==
  \/ begin_download
  \/ \E i \in Tasks : download_stock(i)

Spec == Init /\ [][Next]_vars

\* The main thread and every worker thread that can take a step eventually
\* takes one.
Fairness ==
  /\ WF_vars(begin_download)
  /\ \A i \in 1..MaxSyms : WF_vars(i \in Tasks /\ download_stock(i))

\* Runs in which every provider call returns or raises, fairly scheduled.
SpecFair == Init /\ [][Next]_vars /\ Fairness

\* The start of a run whose provider may also never answer for a symbol.
InitHang ==
  /\ wiki \in SeqsUpTo(Tickers, MaxSyms)
  /\ provider \in [ { Replace(t) : t \in Tickers } -> Responses \cup { Hang } ]
  /\ sink_fails \in BOOLEAN
  /\ main_pc = "read_html"
  /\ exc = "none"
  /\ stock_list = << >>
  /\ task_pc = << >>
  /\ stock_df = << >>
  /\ semaphore = K
  /\ fetched = {}
  /\ df_list = << >>
  /\ main_df = << >>
  /\ table = OldTable
  /\ replace_calls = 0
  /\ replace_rows = << >>
  /\ printed = FALSE
  /\ init_pc = "ready"
  /\ current_time = RunDate
  /\ start_time = StartArgs(RunDate)

\* Runs in which a provider call may never return, fairly scheduled.
SpecHang == InitHang /\ [][Next]_vars /\ Fairness

\* ------------------------------------------------------------- properties
NoDot(s) == \A k \in 1..Len(s) : s[k] # "."

\* The rows of the tasks that returned a frame, in submission order.
SuccessRows ==
  Concat([i \in Tasks |-> IF task_pc[i] = "done" THEN stock_df[i] ELSE << >>])

\* The outcomes begin_download has taken from the futures: the frames in
\* df_list, and the exception it re-raised, if any.
OutcomesCollected == Len(df_list) + (IF exc = "Upstream" THEN 1 ELSE 0)

\* C1: at every instant the number of tasks between semaphore.acquire() and
\* semaphore.release() is at most K.
C1_InFlightAtMostK == Cardinality(InFlight) <= K

\* C1 witness: one task is inside the provider call while another worker is
\* blocked on the semaphore.
C1_Contention ==
  \E i, j \in Tasks : task_pc[i] = "call" /\ task_pc[j] = "acquire"

\* C2: a task whose provider call raised does not abort begin_download: the
\* exception does not reach the main thread, and the run ends with replace
\* called exactly once with the rows of the successful symbols.
C2_PartialFailureTolerated ==
  (\E i \in Tasks : task_pc[i] = "failed") =>
     /\ exc # "Upstream"
     /\ Terminal => (replace_calls = 1 /\ replace_rows = SuccessRows)

\* C3: whenever no task is between acquire and release, the semaphore has
\* its initial value K: no slot is leaked on any exit path of download_stock.
C3_NoLeakedSlot == (InFlight = {}) => (semaphore = K)

\* C4: for a non-empty symbol list, when the run has ended the number of
\* outcomes begin_download collected equals the number of symbols.
C4_OneOutcomePerSymbol ==
  (Terminal /\ stock_list # << >>) => (OutcomesCollected = Len(stock_list))

\* C5: every run that obtained its symbol list calls to_sql exactly once,
\* only after every task has settled, and never twice.
C5_ReplaceExactlyOnce ==
  /\ (Terminal /\ exc # "SymbolSource") => (replace_calls = 1)
  /\ (replace_calls > 0) => Settled
  /\ replace_calls <= 1

\* C6: when every fetch task of a run has failed, the aggregate is empty and
\* the run ends with replace called exactly once with the empty dataset.
C6_AllFailStillReplaces ==
  (Terminal /\ Tasks # {} /\ \A i \in Tasks : task_pc[i] = "failed") =>
     (main_df = << >> /\ replace_calls = 1 /\ replace_rows = << >>)

\* C7: with an empty symbol list the run is not an error of the pipeline:
\* the aggregate has no rows and replace is called exactly once with no rows.
C7_EmptyListStillReplaces ==
  (Terminal /\ exc # "SymbolSource" /\ wiki = << >>) =>
     (exc # "Concat" /\ main_df = << >> /\ replace_calls = 1 /\ replace_rows = << >>)

\* C8: every symbol yf.download is called with is a symbol of the source with
\* each '.' rewritten to '-', so it holds no '.'; and no task is submitted
\* before the whole list has been rewritten.
C8_FetcherNeverSeesDot ==
  /\ \A s \in fetched :
        /\ NoDot(s)
        /\ \E i \in 1..Len(wiki) :
              /\ Len(wiki[i]) = Len(s)
              /\ \A k \in 1..Len(s) :
                    s[k] = (IF wiki[i][k] = "." THEN "-" ELSE wiki[i][k])
  /\ (task_pc # << >>) =>
        /\ Len(stock_list) = Len(wiki)
        /\ \A i \in 1..Len(stock_list) : NoDot(stock_list[i])

\* C8 witness: the provider has been called with a symbol whose '.' was
\* rewritten to '-'.
C8_RewrittenFetched ==
  \E s \in fetched : \E k \in 1..Len(s) : s[k] = "-"

\* C10: when to_sql raises, the exception leaves begin_download and
\* 'Download completed' is not printed; it is printed only in runs where
\* to_sql has returned.
C10_NoSuccessAfterFailedReplace ==
  /\ (exc = "Persistence") => (main_pc = "raised" /\ ~printed)
  /\ printed => (replace_calls = 1 /\ ~sink_fails /\ exc = "none")

\* C10 witness: to_sql has raised and the run has ended with that exception.
C10_ReplaceFailed ==
  exc = "Persistence" /\ replace_calls = 1 /\ main_pc = "raised"

\* C15: on every calendar day __init__ yields a fetch range: its start is the
\* day 11 years earlier with the same month and day, its end is the current
\* day; this includes 29 February.
C15_RangeWellDefined ==
  /\ init_pc # "raised"
  /\ (init_pc = "ready") =>
        /\ start_time = << current_time[1] - 11, current_time[2], current_time[3] >>
        /\ ValidDate(start_time[1], start_time[2], start_time[3])

\* The row the run is to hold for timestamp ts of the answer for symbol s.
ExpectedRow(s, ts) == [Date |-> << ts[1] >>, Name |-> s]

ExpectedRowSet ==
  UNION { { ExpectedRow(stock_list[i], provider[stock_list[i]].index[k]) :
              k \in 1..Len(provider[stock_list[i]].index) } :
          i \in 1..Len(stock_list) }

RowSet(df) == { df[k] : k \in 1..Len(df) }

\* pd.concat has produced self.main_df.
Aggregated == main_pc \in {"to_sql", "report", "done"} \/ exc = "Persistence"

\* C12: the aggregate is a function of the symbol list and of the provider's
\* answers alone: whatever the interleaving, a run that produces an aggregate
\* produces the same set of (symbol, date) rows, and a run that does not
\* leaves main_df empty.
C12_SameAggregateOnEverySchedule ==
  IF Aggregated THEN RowSet(main_df) = ExpectedRowSet ELSE main_df = << >>

\* C12 witness: an aggregate has been produced from the answers for two
\* different symbols, each with rows.
C12_TwoSymbolsAggregated ==
  /\ Aggregated
  /\ \E i, j \in 1..Len(stock_list) :
        /\ stock_list[i] # stock_list[j]
        /\ provider[stock_list[i]].index # << >>
        /\ provider[stock_list[j]].index # << >>

\* C13: every frame download_stock returns has strictly increasing dates; a
\* series whose dates are not strictly increasing is rejected.
C13_ReturnedSeriesStrictlyIncreasing ==
  \A i \in Tasks : (task_pc[i] = "done") =>
     \A k \in 1..(Len(stock_df[i]) - 1) :
        stock_df[i][k].Date[1] < stock_df[i][k + 1].Date[1]

\* C14: every row of a tagged frame, of a collected frame and of the
\* aggregate carries the symbol of the fetch that produced it.
C14_RowsCarryOwnSymbol ==
  /\ \A i \in Tasks : (task_pc[i] \in {"date", "done"}) =>
        \A k \in 1..Len(stock_df[i]) : stock_df[i][k].Name = stock_list[i]
  /\ \A i \in 1..Len(df_list) :
        \A k \in 1..Len(df_list[i]) : df_list[i][k].Name = stock_list[i]
  /\ \A k \in 1..Len(main_df) :
        \E i \in 1..Len(stock_list) :
           /\ main_df[k].Name = stock_list[i]
           /\ \E j \in 1..Len(provider[stock_list[i]].index) :
                 main_df[k].Date = << provider[stock_list[i]].index[j][1] >>

\* C14 witness: a task has returned tagged rows while a task for another
\* symbol is tagging its own.
C14_ConcurrentTagging ==
  \E i, j \in Tasks :
     /\ stock_list[i] # stock_list[j]
     /\ task_pc[i] = "done" /\ stock_df[i] # << >>
     /\ task_pc[j] \in {"tag", "date"} /\ stock_df[j] # << >>

\* C17: every slot taken from the semaphore belongs to a task that is in its
\* provider call (or whose call raised): no task in the tagging step, the
\* date step or later holds a slot.
C17_SlotHeldOnlyDuringCall ==
  K - semaphore = Cardinality({ i \in Tasks : task_pc[i] \in {"call", "release", "failed"} })

\* C17 witness: a task is normalizing while another task is in the call.
C17_NormalizingWhileOtherCalls ==
  \E i, j \in Tasks : task_pc[i] \in {"tag", "date"} /\ task_pc[j] = "call"

\* C18: in the aggregate the rows of each symbol are in the order of the
\* provider's answer for that symbol, for every fetch of it.
C18_ProviderOrderWithinSymbol ==
  Aggregated =>
    \A s \in { stock_list[i] : i \in 1..Len(stock_list) } :
       LET rows == SelectSeq(main_df, LAMBDA r : r.Name = s)
           idx  == provider[s].index
           n    == Cardinality({ i \in 1..Len(stock_list) : stock_list[i] = s })
       IN /\ Len(rows) = n * Len(idx)
          /\ \A k \in 1..Len(rows) :
                rows[k].Date = << idx[((k - 1) % Len(idx)) + 1][1] >>

\* C18 witness: the aggregate holds two rows of one symbol with different
\* dates, next to each other.
C18_TwoRowsOfOneSymbol ==
  /\ Aggregated
  /\ \E k \in 1..(Len(main_df) - 1) :
        main_df[k].Name = main_df[k + 1].Name /\ main_df[k].Date # main_df[k + 1].Date

\* Rows of the answers for the symbols before the i-th.
RECURSIVE Offset(_)
Offset(i) ==
  IF i = 1 THEN 0 ELSE Offset(i - 1) + Len(provider[stock_list[i - 1]].index)

\* C19: when every fetch succeeded, the aggregate is the series of the
\* symbols one after the other in the order of the symbol list.
C19_BlocksInInputOrder ==
  Aggregated =>
    /\ Len(main_df) = Offset(Len(stock_list) + 1)
    /\ \A i \in 1..Len(stock_list) :
          \A k \in 1..Len(provider[stock_list[i]].index) :
             main_df[Offset(i) + k] =
                ExpectedRow(stock_list[i], provider[stock_list[i]].index[k])

\* C19 witness: the aggregate starts with the rows of one symbol and ends
\* with the rows of another.
C19_TwoBlocks ==
  /\ Aggregated
  /\ main_df # << >>
  /\ main_df[1].Name # main_df[Len(main_df)].Name

\* C11: a run has a deadline: once a provider call that never returns is in
\* flight, the run still leaves the for loop and goes on to the aggregation
\* (or ends), instead of waiting for that call for ever.
C11_HungCallDoesNotHoldRun ==
  (\E i \in Tasks : task_pc[i] = "call" /\ Hangs(provider[stock_list[i]]))
    ~> (main_pc \in {"concat", "to_sql", "report", "done", "raised"})

\* C16: with every provider call returning or raising and fair scheduling,
\* every task waiting on the semaphore gets its slot and begin_download ends.
C16_WaitersAcquireAndRunEnds ==
  /\ \A i \in 1..MaxSyms :
        (i \in Tasks /\ task_pc[i] = "acquire") ~> (i \in Tasks /\ task_pc[i] = "call")
  /\ <>Terminal
====
